---------------------------- MODULE Spec2Model ----------------------------
(***************************************************************************)
(* Verification model of the Trilinos fragments:                           *)
(*   - Zoltan2 MappingProblem   (packages/zoltan2/.../MappingProblem.hpp)  *)
(*   - XROL Objective           (unnamed/part_002)                         *)
(*   - panzer UniqueGlobalIndexer utilities, as exercised by the 2-rank    *)
(*     unit test (packages/panzer/test/dofmngr_test/...)                   *)
(*   - Phalanx EvaluatorUtilities (packages/phalanx/src/...Utilities.hpp)  *)
(*   - Tpetra FECrsMatrix       (unnamed/part_001)                         *)
(*   - the Zoltan zdrive run recorded in the log (unnamed/part_000)        *)
(* Each fragment is a state machine of its own with its own specification; *)
(* the variables of the other fragments stay at their idle values.         *)
(***************************************************************************)
EXTENDS Integers, Sequences, FiniteSets, TLC

VARIABLES
  \* ---- Zoltan2::MappingProblem ----
  mp_pc,        \* "unconstructed" | "ready" | "threw" (a constructor threw)
  comm_,        \* Problem<Adapter>::comm_ : the communicator of the problem
  pl,           \* the parameter list entry "mapping_algorithm"
  defString,    \* the default algorithm name
  soln,         \* RCP<MappingSolution>: id of the object held, NULL if none
  partSoln,     \* RCP<partsoln_t>
  machine,      \* RCP<machine_t>
  heap,         \* number of objects allocated with new so far
  mapped,       \* ids of the solutions on which alg.map() has completed
  nSolves,      \* number of solve() calls made
  mp_call,      \* the last call made on the problem and how it ended
  mp_args,      \* the partSoln_ and machine_ the constructor was given
  \* ---- XROL::Objective ----
  obj_pc,       \* "unconstructed" | "constructed"
  param_,       \* unique_ptr<ObjectiveParameters>: id held, NULL if empty
  pObjImpl_,    \* unique_ptr<Impl>: id held, NULL if empty
  objHeap,      \* number of ObjectiveParameters objects made so far
  destroyed,    \* ids of the ObjectiveParameters objects already deleted
  given,        \* the parameters most recently given to the objective
  obj_call,     \* the last call made on the objective and what it did
  \* ---- panzer utilities, one copy of the state per MPI rank ----
  pz_run,       \* what the run computes: the utility, the field, the columns
  pz_pc,        \* rank -> the step the rank has reached
  pz_updated,   \* rank -> the blocks whose container has been applied
  fieldReduced, \* rank -> field numbers on the GIDs of the local elements
  ghostedFields,\* rank -> the result of buildGhostedFieldVector
  pz_data,      \* rank -> block -> the filled field container
  dataReduced,  \* rank -> the reduced data vector of the field
  inbox,        \* rank -> the packets sent to it and not yet received
  pz_result,    \* rank -> the rows of the vector returned
  \* ---- PHX::EvaluatorUtilities ----
  evaluated_,   \* std::vector<FieldTag>: the evaluated fields
  required_,    \* std::vector<FieldTag>: the dependent fields
  name_,        \* std::string: the name of the evaluator
  ev_passed,    \* the tags and the name passed to the object so far
  ev_call,      \* the last call made on the object and what it saw before
  \* ---- Tpetra::FECrsMatrix ----
  fe_pc,              \* "unconstructed" | "ready" | "crashed"
  activeCrsMatrix_,   \* RCP<FEWhichActive>: the flag pointed to, or null
  inactiveCrsMatrix_, \* RCP<crs_matrix_type>: id of the matrix, NULL if null
  offRankMatrix_,     \* RCP<crs_matrix_type>: id of the matrix, NULL if null
  fe_graph,           \* the graph whose entries the CrsMatrix base holds
  fe_call,            \* the last call made on the matrix and the state before
  \* ---- the zdrive RIB run of the log (one copy per process) ----
  lb_pc,        \* "start" | "evaluated" | "partitioned" | "after"
  lb_count,     \* process -> number of objects it holds
  lb_assign,    \* process -> part -> objects it holds assigned to the part
  lb_host,      \* part -> the process the part lives on
  lb_exported,  \* the processes that have sent their exports
  lb_net,       \* <<source, destination>> -> part -> objects in flight
  lb_eval       \* the DRIVER EVAL / Zoltan_LB_Eval figures printed so far

mpVars  == <<mp_pc, comm_, pl, defString, soln, partSoln, machine, heap,
             mapped, nSolves, mp_call, mp_args>>
objVars == <<obj_pc, param_, pObjImpl_, objHeap, destroyed, given, obj_call>>
pzVars  == <<pz_run, pz_pc, pz_updated, fieldReduced, ghostedFields, pz_data,
             dataReduced,
             inbox, pz_result>>
evVars  == <<evaluated_, required_, name_, ev_passed, ev_call>>
feVars  == <<fe_pc, activeCrsMatrix_, inactiveCrsMatrix_, offRankMatrix_,
             fe_graph, fe_call>>
lbVars  == <<lb_pc, lb_count, lb_assign, lb_host, lb_exported, lb_net,
             lb_eval>>
vars    == <<mpVars, objVars, pzVars, evVars, feVars, lbVars>>

-----------------------------------------------------------------------------
(* Bounds of the model *)
MaxSolves == 3      \* solve() calls per problem
MaxParams == 3      \* ObjectiveParameters objects the caller makes
MaxCols   == 2      \* columns of a multi-column field container
MaxFields == 2      \* tags added to one field list of an evaluator

(* Program constants *)
NULL == 0
\* figures of the recorded zdrive run
NumProcs       == 5     \* Total number of Processors
ObjsPerProc    == 76    \* objs: max 76 min 76 before load balancing
RequestedParts == 4     \* Part count: 4 requested
RecordedSum    == 380   \* objs: sum 380
ObjWeight      == 1     \* OBJ_WEIGHT_DIM = 0: every object weighs one

-----------------------------------------------------------------------------
(***************************************************************************)
(*                       Zoltan2::MappingProblem                           *)
(***************************************************************************)

NoException == "none"
Exceptions  == {"std::bad_alloc", "std::runtime_error"}
MaybeThrow  == Exceptions \cup {NoException}

AlgNames == {"geometric", "block"}

\* The user's objects handed to the constructors (raw pointers).
UserPartSolns == {1}
UserMachines  == {2}
UserObjects   == UserPartSolns \cup UserMachines

\* An entry of the Teuchos::ParameterList: absent, a string, or another type.
ParameterEntries ==
  {[present |-> FALSE, isString |-> FALSE, value |-> ""]} \cup
  {[present |-> TRUE,  isString |-> FALSE, value |-> ""]} \cup
  {[present |-> TRUE,  isString |-> TRUE,  value |-> n] : n \in AlgNames}

\* An empty Teuchos::RCP, and Teuchos::rcp(p, owns).
NullRCP == [ptr |-> NULL, has_ownership |-> FALSE, madeFrom |-> "none"]
rcp(p, owns, from) == [ptr |-> p, has_ownership |-> owns, madeFrom |-> from]

\* The object that the next new-expression returns: never a live one.
NewObject(h) == Cardinality(UserObjects) + h + 1

\* Z2_FORWARD_EXCEPTIONS: the catch clauses after a try block; each re-throws
\* what it caught, and what it does not catch propagates by itself.
Z2_FORWARD_EXCEPTIONS(e) == e

NoCall == [op |-> "none", raised |-> NoException, thrown |-> NoException,
           prevSoln |-> NULL, created |-> NULL, ret |-> NULL,
           algName |-> "", mapper |-> "not run"]

NoArgs == [partSoln_ |-> NULL, machine_ |-> NULL]

MappingIdle ==
  /\ mp_pc = "unconstructed"
  /\ comm_ = "unset"
  /\ pl = [present |-> FALSE, isString |-> FALSE, value |-> ""]
  /\ defString = "geometric"
  /\ soln = NULL
  /\ partSoln = NullRCP
  /\ machine = NullRCP
  /\ heap = 0
  /\ mapped = {}
  /\ nSolves = 0
  /\ mp_call = NoCall
  /\ mp_args = NoArgs

MappingInit ==
  /\ mp_pc = "unconstructed"
  /\ comm_ = "unset"
  /\ pl = [present |-> FALSE, isString |-> FALSE, value |-> ""]
  /\ defString \in AlgNames
  /\ soln = NULL
  /\ partSoln = NullRCP
  /\ machine = NullRCP
  /\ heap = 0
  /\ mapped = {}
  /\ nSolves = 0
  /\ mp_call = NoCall
  /\ mp_args = NoArgs

\* createMappingProblem: the partitioning solution handle.
createPartSoln(partSoln_) ==
  IF partSoln_ # NULL THEN rcp(partSoln_, FALSE, "user") ELSE NullRCP

\* createMappingProblem: the machine handle; newExc is what
\* new machine_t(comm_) throws, if anything.
\* (faulty variant: the user's machine is ignored and one is always created)
createMachineSkipsUser(machine_, comm, h, newExc) ==
  IF newExc = NoException THEN rcp(NewObject(h), TRUE, comm) ELSE NullRCP

createMachine(machine_, comm, h, newExc) ==
  IF machine_ # NULL THEN rcp(machine_, FALSE, "user")
  ELSE IF newExc = NoException THEN rcp(NewObject(h), TRUE, comm)
  ELSE NullRCP

\* The exception that leaves createMappingProblem.
createThrown(machine_, newExc) ==
  IF machine_ = NULL /\ newExc # NoException
  THEN Z2_FORWARD_EXCEPTIONS(newExc) ELSE NoException

\* createMappingProblem(partSoln_, machine_), called by every constructor
\* after Problem<Adapter>(A_, p_, comm) has set the communicator and the
\* parameter list.
createMappingProblem(ctor, comm, p_, partSoln_, machine_, newExc) ==
  LET thrown == createThrown(machine_, newExc)
      m      == createMachine(machine_, comm, heap, newExc)
  IN  /\ mp_pc = "unconstructed"
      \* an input that is never consulted is not a different call
      /\ (machine_ # NULL => newExc = NoException)
      /\ comm_' = comm
      /\ pl' = p_
      /\ partSoln' = createPartSoln(partSoln_)
      /\ machine' = m
      /\ heap' = IF m.has_ownership THEN heap + 1 ELSE heap
      /\ mp_pc' = IF thrown = NoException THEN "ready" ELSE "threw"
      /\ mp_call' = [NoCall EXCEPT !.op = ctor,
                       !.raised = IF machine_ = NULL THEN newExc
                                  ELSE NoException,
                       !.thrown = thrown]
      /\ mp_args' = [partSoln_ |-> partSoln_, machine_ |-> machine_]
      /\ UNCHANGED <<defString, soln, mapped, nSolves>>

\* MappingProblem(A_, p_, MPI_Comm comm_, partSoln_, machine_)
MappingProblemMPI ==
  \E p_ \in ParameterEntries, ps \in UserPartSolns \cup {NULL},
     m \in UserMachines \cup {NULL}, e \in MaybeThrow :
       /\ createMappingProblem("MappingProblem(MPI_Comm)", "MPI_Comm",
                               p_, ps, m, e)
       /\ UNCHANGED <<objVars, pzVars, evVars, feVars, lbVars>>

\* MappingProblem(A_, p_, Teuchos::Comm<int> comm_, partSoln_, machine_)
MappingProblemComm ==
  \E p_ \in ParameterEntries, ps \in UserPartSolns \cup {NULL},
     m \in UserMachines \cup {NULL}, e \in MaybeThrow :
       /\ createMappingProblem("MappingProblem(Teuchos::Comm)",
                               "Teuchos::Comm", p_, ps, m, e)
       /\ UNCHANGED <<objVars, pzVars, evVars, feVars, lbVars>>

\* MappingProblem(A_, p_, partSoln_, machine_): the default communicator
MappingProblemDefault ==
  \E p_ \in ParameterEntries, ps \in UserPartSolns \cup {NULL},
     m \in UserMachines \cup {NULL}, e \in MaybeThrow :
       /\ createMappingProblem("MappingProblem()", "default",
                               p_, ps, m, e)
       /\ UNCHANGED <<objVars, pzVars, evVars, feVars, lbVars>>

\* solve(): this->soln = rcp(new MappingSolution<Adapter>()) in its try
\* block: the handle after it, when the new-expression throws createExc.
\* (faulty variant: a solution already held is kept)
solveSolnKeepsOld(s, fresh, createExc) ==
  IF s # NULL THEN s
  ELSE IF createExc = NoException THEN fresh ELSE s

solveSoln(s, fresh, createExc) ==
  IF createExc = NoException THEN fresh ELSE s

\* solve(): std::string algName(defString); pe = pl.getEntryPtr(...);
\* if (pe) algName = pe->getValue<std::string>(&algName);
\* (faulty variant: the entry is never read)
algNameIgnoresEntry(p, def) == def

algName(p, def) ==
  IF p.present THEN p.value ELSE def

\* getValue<std::string> throws when the entry holds another type.
getValueThrows(p) ==
  IF p.present /\ ~p.isString
  THEN "Teuchos::Exceptions::InvalidParameterType" ELSE NoException

\* solve(): if (algName == "geometric") { CoordinateTaskMapper alg; alg.map }
runsMapper(name) == name = "geometric"

\* The exception that leaves solve(): from the first try block, from
\* getValue (outside any try block), or from the second try block.
\* (faulty variant: the second catch swallows the mapper's exception)
solveThrownSwallowsMap(createExc, p, def, mapExc) ==
  IF createExc # NoException THEN Z2_FORWARD_EXCEPTIONS(createExc)
  ELSE IF getValueThrows(p) # NoException THEN getValueThrows(p)
  ELSE NoException

solveThrown(createExc, p, def, mapExc) ==
  IF createExc # NoException THEN Z2_FORWARD_EXCEPTIONS(createExc)
  ELSE IF getValueThrows(p) # NoException THEN getValueThrows(p)
  ELSE IF runsMapper(algName(p, def)) /\ mapExc # NoException
       THEN Z2_FORWARD_EXCEPTIONS(mapExc)
  ELSE NoException

\* The exception raised inside one of solve()'s try blocks, if any.
solveRaised(createExc, p, def, mapExc) ==
  IF createExc # NoException THEN createExc
  ELSE IF getValueThrows(p) # NoException THEN NoException
  ELSE IF runsMapper(algName(p, def)) THEN mapExc
  ELSE NoException

\* MappingProblem::solve(bool newData)
solve ==
  \E newData \in BOOLEAN, createExc \in MaybeThrow, mapExc \in MaybeThrow :
    LET fresh   == NewObject(heap)
        s       == solveSoln(soln, fresh, createExc)
        reached == createExc = NoException /\ getValueThrows(pl) = NoException
        name    == IF reached THEN algName(pl, defString) ELSE ""
        ran     == reached /\ runsMapper(name) /\ mapExc = NoException
    IN  /\ mp_pc = "ready"
        /\ nSolves < MaxSolves
        \* an input that is never consulted is not a different call
        /\ (createExc # NoException => mapExc = NoException)
        /\ (reached /\ ~runsMapper(name) => mapExc = NoException)
        /\ (~reached => mapExc = NoException)
        /\ soln' = s
        /\ heap' = IF createExc = NoException THEN heap + 1 ELSE heap
        /\ mapped' = IF ran THEN mapped \cup {s} ELSE mapped
        /\ nSolves' = nSolves + 1
        /\ mp_call' = [NoCall EXCEPT !.op = "solve",
                         !.raised = solveRaised(createExc, pl, defString, mapExc),
                         !.thrown = solveThrown(createExc, pl, defString, mapExc),
                         !.prevSoln = soln,
                         !.created = IF createExc = NoException THEN fresh
                                     ELSE NULL,
                         !.algName = name,
                         !.mapper = IF reached /\ runsMapper(name)
                                    THEN "run" ELSE "not run"]
        /\ UNCHANGED <<mp_pc, comm_, pl, defString, partSoln, machine,
                       mp_args>>
        /\ UNCHANGED <<objVars, pzVars, evVars, feVars, lbVars>>

\* MappingProblem::getSolution(): return soln.getRawPtr();
getSolution ==
  /\ mp_pc = "ready"
  /\ mp_call' = [NoCall EXCEPT !.op = "getSolution", !.prevSoln = soln,
                               !.ret = soln]
  /\ UNCHANGED <<mp_pc, comm_, pl, defString, soln, partSoln, machine, heap,
                 mapped, nSolves, mp_args>>
  /\ UNCHANGED <<objVars, pzVars, evVars, feVars, lbVars>>

-----------------------------------------------------------------------------
(***************************************************************************)
(*                            XROL::Objective                              *)
(***************************************************************************)

Vectors == {"a", "b"}        \* the XPrim / XDual arguments
Tols    == {"tol1", "tol2"}  \* the tolerance argument
Self    == "*this"

NoObjCall == [op |-> "none", received |-> <<>>, target |-> NULL,
              method |-> "none", passed |-> <<>>, outcome |-> "none",
              ret |-> NULL]

NothingGiven == [by |-> "none", param |-> NULL]

ObjectiveIdle ==
  /\ obj_pc = "unconstructed"
  /\ param_ = NULL
  /\ pObjImpl_ = NULL
  /\ objHeap = 0
  /\ destroyed = {}
  /\ given = NothingGiven
  /\ obj_call = NoObjCall

ObjectiveInit == ObjectiveIdle

\* std::make_unique<ObjectiveParameters>(): a new object, never a live one.
make_unique(h) == h + 1

\* The unique_ptr arguments a caller can pass: empty, or a new object.
ParamArgs == {NULL, make_unique(objHeap)}

\* Objective() : param_(std::make_unique<ObjectiveParameters>)
\* pObjImpl_ has no initializer: it is default-constructed, that is empty.
ObjectiveDefault ==
  /\ obj_pc = "unconstructed"
  /\ objHeap < MaxParams
  /\ obj_pc' = "constructed"
  /\ param_' = make_unique(objHeap)
  /\ pObjImpl_' = NULL
  /\ objHeap' = objHeap + 1
  /\ given' = [by |-> "Objective()", param |-> NULL]
  /\ obj_call' = [NoObjCall EXCEPT !.op = "Objective()"]
  /\ UNCHANGED destroyed
  /\ UNCHANGED <<mpVars, pzVars, evVars, feVars, lbVars>>

\* Objective(std::unique_ptr<ObjectiveParameters> param)
\*   : param_(std::move(param))
ObjectiveParam ==
  \E param \in ParamArgs :
    /\ obj_pc = "unconstructed"
    /\ objHeap < MaxParams
    /\ obj_pc' = "constructed"
    /\ param_' = param
    /\ pObjImpl_' = NULL
    /\ objHeap' = IF param # NULL THEN objHeap + 1 ELSE objHeap
    /\ given' = [by |-> "Objective(param)", param |-> param]
    /\ obj_call' = [NoObjCall EXCEPT !.op = "Objective(param)",
                                     !.received = <<param>>]
    /\ UNCHANGED destroyed
    /\ UNCHANGED <<mpVars, pzVars, evVars, feVars, lbVars>>

\* param_ = std::move(param): the handle after the move assignment.
moveAssign(old, param) == param

\* setParameters(std::unique_ptr<ObjectiveParameters> param)
\* The move assignment deletes the object held before.
setParameters ==
  \E param \in ParamArgs :
    LET new == moveAssign(param_, param)
    IN  /\ obj_pc = "constructed"
        /\ objHeap < MaxParams
        /\ param_' = new
        /\ destroyed' = IF param_ # NULL /\ new # param_
                        THEN destroyed \cup {param_} ELSE destroyed
        /\ objHeap' = IF param # NULL THEN objHeap + 1 ELSE objHeap
        /\ given' = [by |-> "setParameters", param |-> param]
        /\ obj_call' = [NoObjCall EXCEPT !.op = "setParameters",
                                         !.received = <<param>>]
        /\ UNCHANGED <<obj_pc, pObjImpl_>>
        /\ UNCHANGED <<mpVars, pzVars, evVars, feVars, lbVars>>

\* getParameters() const { return std::move(param_); }
\* In a const member param_ is const: std::move yields a const rvalue
\* reference, from which nothing can be moved; the handle keeps its object.
\* (faulty variant: a non-const getter, whose std::move empties the handle)
paramAfterGetMovedOut(p) == NULL

paramAfterGet(p) == p

getParameters ==
  /\ obj_pc = "constructed"
  /\ param_' = paramAfterGet(param_)
  /\ obj_call' = [NoObjCall EXCEPT !.op = "getParameters", !.ret = param_]
  /\ UNCHANGED <<obj_pc, pObjImpl_, objHeap, destroyed, given>>
  /\ UNCHANGED <<mpVars, pzVars, evVars, feVars, lbVars>>

\* pObjImpl_->f(...): calling through an empty unique_ptr is undefined
\* behaviour; the build either faults or enters f with a null this.
Dereference(p) ==
  IF p = NULL THEN {"fault", "invoked on null"} ELSE {"invoked"}

\* What each default method hands to Impl.
gradientPassed(g, x, tol)    == <<Self, g, x, tol>>
dirDerivPassed(x, d, tol)    == <<Self, x, d>>
hessVecPassed(hv, v, x, tol) == <<Self, hv, v, x, tol>>

Delegate(op, received, passed, outcome) ==
  /\ obj_pc = "constructed"
  /\ obj_call' = [NoObjCall EXCEPT !.op = op, !.received = received,
                                   !.target = pObjImpl_, !.method = op,
                                   !.passed = passed, !.outcome = outcome]
  /\ UNCHANGED <<obj_pc, param_, pObjImpl_, objHeap, destroyed, given>>
  /\ UNCHANGED <<mpVars, pzVars, evVars, feVars, lbVars>>

\* gradient(g, x, tol) { pObjImpl_->gradient(*this,g,x,tol); }
gradient ==
  \E g \in Vectors, x \in Vectors, tol \in Tols,
     o \in Dereference(pObjImpl_) :
       Delegate("gradient", <<g, x, tol>>, gradientPassed(g, x, tol), o)

\* dirDeriv(x, d, tol) { return pObjImpl_->dirDeriv(*this,x,d); }
dirDeriv ==
  \E x \in Vectors, d \in Vectors, tol \in Tols,
     o \in Dereference(pObjImpl_) :
       Delegate("dirDeriv", <<x, d, tol>>, dirDerivPassed(x, d, tol), o)

\* hessVec(hv, v, x, tol) { pObjImpl_->hessVec(*this,hv,v,x,tol); }
hessVec ==
  \E hv \in Vectors, v \in Vectors, x \in Vectors, tol \in Tols,
     o \in Dereference(pObjImpl_) :
       Delegate("hessVec", <<hv, v, x, tol>>, hessVecPassed(hv, v, x, tol), o)

\* checkGradient(x, g, d, os, parlist)
\*   { return pObjImpl_->checkGradient(*this,x,g,d,os,parlist); }
checkGradient ==
  \E x \in Vectors, g \in Vectors, d \in Vectors,
     o \in Dereference(pObjImpl_) :
       Delegate("checkGradient", <<x, g, d, "os", "parlist">>,
                <<Self, x, g, d, "os", "parlist">>, o)

\* checkHessVec(x, hv, v, os, parlist)
\*   { return pObjImpl_->checkHessVec(*this,x,hv,v,os,parlist); }
checkHessVec ==
  \E x \in Vectors, hv \in Vectors, v \in Vectors,
     o \in Dereference(pObjImpl_) :
       Delegate("checkHessVec", <<x, hv, v, "os", "parlist">>,
                <<Self, x, hv, v, "os", "parlist">>, o)

\* checkHessSym(x, hv, v, w, os, parlist)
\*   { return pObjImpl_->checkHessSym(*this,x,hv,v,w,os,parlist); }
checkHessSym ==
  \E x \in Vectors, hv \in Vectors, v \in Vectors, w \in Vectors,
     o \in Dereference(pObjImpl_) :
       Delegate("checkHessSym", <<x, hv, v, w, "os", "parlist">>,
                <<Self, x, hv, v, w, "os", "parlist">>, o)

-----------------------------------------------------------------------------
(***************************************************************************)
(*      panzer UniqueGlobalIndexer utilities in the 2-rank unit test       *)
(***************************************************************************)

Ranks == {0, 1}
Other(r) == IF r = 0 THEN 1 ELSE 0

Range(s) == {s[i] : i \in 1..Len(s)}

\* ---- panzer::unit_test::UniqueGlobalIndexer: a row of four quadrilaterals
\* A B C D; A and C are local to rank 0, B and D to rank 1; A and B lie in
\* "block_0" (fields U and T), C and D in "block_1" (field U only).
FieldNames == {"U", "T"}
BlockIds   == <<"block_0", "block_1">>

getFieldNum(name) == IF name = "U" THEN 0 ELSE 1

\* getElementBlock(blockId): the local element ids of the block
getElementBlock(r, b) == IF b = "block_0" THEN <<0>> ELSE <<1>>

\* getElementGIDs(localElmtId, gids) on rank r
getElementGIDs(r, e) ==
  IF r = 0 THEN (IF e = 0 THEN <<0, 1, 2, 3, 4, 5, 6, 7>>
                           ELSE <<8, 12, 13, 10>>)
           ELSE (IF e = 0 THEN <<2, 3, 8, 9, 10, 11, 4, 5>>
                           ELSE <<12, 14, 15, 13>>)

\* getGIDFieldOffsets(blockId, fieldNum): 0-based offsets into the GIDs
getGIDFieldOffsets(b, fieldNum) ==
  IF b = "block_0" THEN (IF fieldNum = 0 THEN <<0, 2, 4, 6>>
                                         ELSE <<1, 3, 5, 7>>)
                   ELSE (IF fieldNum = 0 THEN <<0, 1, 2, 3>> ELSE <<>>)

\* getOwnedAndSharedIndices(indices) on rank r
getOwnedAndSharedIndices(r) ==
  IF r = 0 THEN <<0, 1, 2, 3, 4, 5, 6, 7, 8, 9, 12, 13, 10, 11>>
           ELSE <<2, 3, 8, 9, 10, 11, 4, 5, 12, 14, 15, 13>>

\* getOwnedIndices(indices) on rank r
getOwnedIndices(r) ==
  IF r = 0 THEN <<6, 7, 0, 1, 2, 3, 8, 9, 10, 11, 13>>
           ELSE <<4, 5, 12, 15, 14>>

\* The element blocks in which a field lives.
BlocksOf(fieldNum) ==
  SelectSeq(BlockIds, LAMBDA b : Len(getGIDFieldOffsets(b, fieldNum)) > 0)

\* The GIDs of a rank's element of block b that carry the field, in the
\* order of the field's basis functions.
ElementFieldGIDs(r, b, e, fieldNum) ==
  LET gids == getElementGIDs(r, getElementBlock(r, b)[e])
      offs == getGIDFieldOffsets(b, fieldNum)
  IN  [f \in 1..Len(offs) |-> gids[offs[f] + 1]]

\* The GIDs that lie on an element local to rank r.
LocalElementGIDs(r) ==
  UNION {Range(getElementGIDs(r, getElementBlock(r, BlockIds[b])[e])) :
           b \in 1..Len(BlockIds), e \in {1}}

\* ---- Tpetra: vectors over a map (a sequence of GIDs), import and export.
\* A vector is a function from the GIDs of its map to rows.

\* What rank r packs for the importing rank: the entries of r's source that
\* the target map of the importer names and the importer's own source lacks.
importPacket(src, dstMap, dstSrcGIDs) ==
  [g \in (DOMAIN src \cap Range(dstMap)) \ dstSrcGIDs |-> src[g]]

\* What rank r packs for the rank it exports to: every entry of r's source
\* that the target map names.
exportPacket(src, dstMap) ==
  [g \in DOMAIN src \cap Range(dstMap) |-> src[g]]

\* doImport(source, importer, INSERT): local entries are copied, the others
\* are taken from the packet; a row nobody supplies keeps its initial value.
\* (faulty variant: the remote entries are dropped)
doImportLocalOnly(src, packet, dstMap, init) ==
  [i \in 1..Len(dstMap) |->
     IF dstMap[i] \in DOMAIN src THEN src[dstMap[i]] ELSE init]

doImport(src, packet, dstMap, init) ==
  [i \in 1..Len(dstMap) |->
     IF dstMap[i] \in DOMAIN src THEN src[dstMap[i]]
     ELSE IF dstMap[i] \in DOMAIN packet THEN packet[dstMap[i]]
     ELSE init]

\* doExport(source, exporter, INSERT): local entries are copied first, then
\* the received entries are inserted over them.
doExport(src, packet, dstMap, init) ==
  [i \in 1..Len(dstMap) |->
     IF dstMap[i] \in DOMAIN packet THEN packet[dstMap[i]]
     ELSE IF dstMap[i] \in DOMAIN src THEN src[dstMap[i]]
     ELSE init]

\* ---- Panzer_UniqueGlobalIndexer_Utilities

\* buildGhostedFieldReducedVector(ugi): the field number of every GID on a
\* local element, over the owned-and-shared indices that lie on one.
reducedIndices(r) ==
  SelectSeq(getOwnedAndSharedIndices(r), LAMBDA g : g \in LocalElementGIDs(r))

buildGhostedFieldReducedVector(r) ==
  [g \in Range(reducedIndices(r)) |->
     IF \E b \in 1..Len(BlockIds) :
          g \in Range(ElementFieldGIDs(r, BlockIds[b], 1, 0))
     THEN 0 ELSE 1]

\* getFieldMap(fieldNum, fieldVector): the indices whose entry is fieldNum,
\* in the order of the vector's map.
getFieldMap(fieldNum, indices, fieldOf) ==
  SelectSeq(indices, LAMBDA g : fieldOf[g] = fieldNum)

\* The ghosted field vector of rank r as a function of the GID.
GhostedFieldOf(r) ==
  [g \in Range(getOwnedAndSharedIndices(r)) |->
     LET idx == getOwnedAndSharedIndices(r)
         i   == CHOOSE k \in 1..Len(idx) : idx[k] = g
     IN  ghostedFields[r][i]]

reducedFieldMap(r, fieldNum) ==
  getFieldMap(fieldNum, reducedIndices(r), fieldReduced[r])
ghostedFieldMap(r, fieldNum) ==
  getFieldMap(fieldNum, getOwnedAndSharedIndices(r), GhostedFieldOf(r))
ownedFieldMap(r, fieldNum) ==
  getFieldMap(fieldNum, getOwnedIndices(r), GhostedFieldOf(r))

\* ---- the test harness

\* The runs of the test: the utility, the field and the container columns
\* (0 columns: the rank-2 container of the single-column tests).
Runs ==
  {[op |-> "buildGhostedFieldVector", field |-> "U", cols |-> 0]} \cup
  {[op |-> "updateGhostedDataReducedVector", field |-> f, cols |-> 0] :
     f \in FieldNames} \cup
  {[op |-> o, field |-> f, cols |-> c] :
     o \in {"getGhostedDataVector", "getDataVector"},
     f \in FieldNames, c \in 0..MaxCols}

numCols(run) == IF run.cols = 0 THEN 1 ELSE run.cols

ZeroRow(run) == [c \in 1..numCols(run) |-> 0]

\* fillFieldContainer(fieldNum, blockId, ugi, data):
\*   data.resize(1,4); data(e,f) = gids[fieldOffsets[f]];
\* (faulty variant: data(e,f) = gids[f], the field offsets forgotten)
fillFieldContainerNoOffsets(fieldNum, blockId, r) ==
  LET elements == getElementBlock(r, blockId)
      offs     == getGIDFieldOffsets(blockId, fieldNum)
  IN  [e \in 1..Len(elements) |->
        [f \in 1..4 |->
           IF f <= Len(offs)
           THEN <<getElementGIDs(r, elements[e])[f]>>
           ELSE <<0>>]]

fillFieldContainer(fieldNum, blockId, r) ==
  LET elements == getElementBlock(r, blockId)
      offs     == getGIDFieldOffsets(blockId, fieldNum)
  IN  [e \in 1..Len(elements) |->
        [f \in 1..4 |->
           IF f <= Len(offs)
           THEN <<getElementGIDs(r, elements[e])[offs[f] + 1]>>
           ELSE <<0>>]]

\* fillFieldContainer(fieldNum, blockId, ugi, data, cols):
\*   data.resize(1,4,cols); data(e,f,c) = gids[fieldOffsets[f]]+c;
\* (faulty variant: data(e,f,c) = gids[fieldOffsets[f]], every column alike)
fillFieldContainerColsAlike(fieldNum, blockId, r, cols) ==
  LET elements == getElementBlock(r, blockId)
      offs     == getGIDFieldOffsets(blockId, fieldNum)
  IN  [e \in 1..Len(elements) |->
        [f \in 1..4 |->
           [c \in 1..cols |->
              IF f <= Len(offs)
              THEN getElementGIDs(r, elements[e])[offs[f] + 1]
              ELSE 0]]]

fillFieldContainerCols(fieldNum, blockId, r, cols) ==
  LET elements == getElementBlock(r, blockId)
      offs     == getGIDFieldOffsets(blockId, fieldNum)
  IN  [e \in 1..Len(elements) |->
        [f \in 1..4 |->
           [c \in 1..cols |->
              IF f <= Len(offs)
              THEN getElementGIDs(r, elements[e])[offs[f] + 1] + (c - 1)
              ELSE 0]]]

\* updateGhostedDataReducedVector(fieldName, blockId, ugi, data, vec):
\* for every element of the block and every basis function f of the field,
\* the row of GID gids[fieldOffsets[f]] becomes data(e,f,:).
\* (faulty variant: the rows of the other blocks are reset to zero)
updateGhostedDataReducedVectorResets(fieldNum, blockId, r, data, vec) ==
  LET elements == getElementBlock(r, blockId)
      Hits(g)  == {<<e, f>> \in (1..Len(elements)) \X (1..4) :
                     /\ f <= Len(getGIDFieldOffsets(blockId, fieldNum))
                     /\ ElementFieldGIDs(r, blockId, e, fieldNum)[f] = g}
  IN  [g \in DOMAIN vec |->
         IF Hits(g) # {}
         THEN LET h == CHOOSE h \in Hits(g) : TRUE IN data[h[1]][h[2]]
         ELSE [c \in 1..Len(vec[g]) |-> 0]]

updateGhostedDataReducedVector(fieldNum, blockId, r, data, vec) ==
  LET elements == getElementBlock(r, blockId)
      Hits(g)  == {<<e, f>> \in (1..Len(elements)) \X (1..4) :
                     /\ f <= Len(getGIDFieldOffsets(blockId, fieldNum))
                     /\ ElementFieldGIDs(r, blockId, e, fieldNum)[f] = g}
  IN  [g \in DOMAIN vec |->
         IF Hits(g) # {}
         THEN LET h == CHOOSE h \in Hits(g) : TRUE IN data[h[1]][h[2]]
         ELSE vec[g]]

RECURSIVE updateBlocks(_, _, _, _, _)
updateBlocks(fieldNum, blocks, r, data, vec) ==
  IF blocks = <<>> THEN vec
  ELSE updateBlocks(fieldNum, Tail(blocks), r, data,
         updateGhostedDataReducedVector(fieldNum, Head(blocks), r,
                                        data[Head(blocks)], vec))

\* ---- the state machine of one rank

NoVector == <<>>

PanzerIdle ==
  /\ pz_run = [op |-> "none", field |-> "U", cols |-> 0]
  /\ pz_pc = [r \in Ranks |-> "start"]
  /\ pz_updated = [r \in Ranks |-> {}]
  /\ fieldReduced = [r \in Ranks |-> NoVector]
  /\ ghostedFields = [r \in Ranks |-> NoVector]
  /\ pz_data = [r \in Ranks |-> NoVector]
  /\ dataReduced = [r \in Ranks |-> NoVector]
  /\ inbox = [r \in Ranks |-> <<>>]
  /\ pz_result = [r \in Ranks |-> NoVector]

PanzerInit ==
  /\ pz_run \in Runs
  /\ pz_pc = [r \in Ranks |-> "start"]
  /\ pz_updated = [r \in Ranks |-> {}]
  /\ fieldReduced = [r \in Ranks |-> NoVector]
  /\ ghostedFields = [r \in Ranks |-> NoVector]
  /\ pz_data = [r \in Ranks |-> NoVector]
  /\ dataReduced = [r \in Ranks |-> NoVector]
  /\ inbox = [r \in Ranks |-> <<>>]
  /\ pz_result = [r \in Ranks |-> NoVector]

\* buildGhostedFieldVector, local part: the reduced field vector.
BuildReduced(r) ==
  /\ pz_pc[r] = "start"
  /\ fieldReduced' = [fieldReduced EXCEPT ![r] =
                        buildGhostedFieldReducedVector(r)]
  /\ pz_pc' = [pz_pc EXCEPT ![r] = "fieldReduced"]
  /\ UNCHANGED <<pz_run, pz_updated, ghostedFields, pz_data, dataReduced,
                 inbox,
                 pz_result>>
  /\ UNCHANGED <<mpVars, objVars, evVars, feVars, lbVars>>

\* buildGhostedFieldVector, import: the rank sends what the other rank needs.
PostFields(r) ==
  /\ pz_pc[r] = "fieldReduced"
  /\ pz_run.op # "updateGhostedDataReducedVector"
  /\ inbox' = [inbox EXCEPT ![Other(r)] =
       Append(@, importPacket(fieldReduced[r],
                              getOwnedAndSharedIndices(Other(r)),
                              Range(reducedIndices(Other(r)))))]
  /\ pz_pc' = [pz_pc EXCEPT ![r] = "fieldsPosted"]
  /\ UNCHANGED <<pz_run, pz_updated, fieldReduced, ghostedFields, pz_data,
                 dataReduced,
                 pz_result>>
  /\ UNCHANGED <<mpVars, objVars, evVars, feVars, lbVars>>

\* buildGhostedFieldVector(ugi, fieldNumbers): the import completes once the
\* other rank's packet has arrived; rows start as -1.
buildGhostedFieldVector(r, packet) ==
  doImport(fieldReduced[r], packet, getOwnedAndSharedIndices(r), -1)

CompleteFields(r) ==
  /\ pz_pc[r] = "fieldsPosted"
  /\ inbox[r] # <<>>
  /\ ghostedFields' = [ghostedFields EXCEPT ![r] =
                         buildGhostedFieldVector(r, Head(inbox[r]))]
  /\ inbox' = [inbox EXCEPT ![r] = Tail(@)]
  /\ pz_pc' = [pz_pc EXCEPT ![r] =
                 IF pz_run.op = "buildGhostedFieldVector" THEN "done"
                 ELSE "constructed"]
  /\ UNCHANGED <<pz_run, pz_updated, fieldReduced, pz_data, dataReduced,
                 pz_result>>
  /\ UNCHANGED <<mpVars, objVars, evVars, feVars, lbVars>>

\* The test fills one container per block of the field.
FillFieldContainers(r) ==
  LET fn == getFieldNum(pz_run.field)
  IN  /\ pz_pc[r] = "constructed"
      /\ pz_data' = [pz_data EXCEPT ![r] =
           [b \in Range(BlocksOf(fn)) |->
              IF pz_run.cols = 0 THEN fillFieldContainer(fn, b, r)
              ELSE fillFieldContainerCols(fn, b, r, pz_run.cols)]]
      /\ pz_pc' = [pz_pc EXCEPT ![r] = "filled"]
      /\ UNCHANGED <<pz_run, pz_updated, fieldReduced, ghostedFields,
                     dataReduced, inbox,
                     pz_result>>
      /\ UNCHANGED <<mpVars, objVars, evVars, feVars, lbVars>>

\* getGhostedDataVector / getDataVector, local part: a zero vector on the
\* reduced field map, updated from the container of every block.
ReduceData(r) ==
  LET fn == getFieldNum(pz_run.field)
  IN  /\ pz_pc[r] = "filled"
      /\ pz_run.op # "updateGhostedDataReducedVector"
      /\ dataReduced' = [dataReduced EXCEPT ![r] =
           updateBlocks(fn, BlocksOf(fn), r, pz_data[r],
                        [g \in Range(reducedFieldMap(r, fn)) |->
                           ZeroRow(pz_run)])]
      /\ pz_pc' = [pz_pc EXCEPT ![r] = "reduced"]
      /\ UNCHANGED <<pz_run, pz_updated, fieldReduced, ghostedFields, pz_data,
                     inbox,
                     pz_result>>
      /\ UNCHANGED <<mpVars, objVars, evVars, feVars, lbVars>>

\* The updateGhostedDataVector test: a zero vector is constructed on the
\* field map of the reduced field vector ...
ConstructReducedVector(r) ==
  LET fn == getFieldNum(pz_run.field)
  IN  /\ pz_pc[r] = "fieldReduced"
      /\ pz_run.op = "updateGhostedDataReducedVector"
      /\ dataReduced' = [dataReduced EXCEPT ![r] =
           [g \in Range(reducedFieldMap(r, fn)) |-> ZeroRow(pz_run)]]
      /\ pz_pc' = [pz_pc EXCEPT ![r] = "constructed"]
      /\ UNCHANGED <<pz_run, pz_updated, fieldReduced, ghostedFields,
                     pz_data, inbox, pz_result>>
      /\ UNCHANGED <<mpVars, objVars, evVars, feVars, lbVars>>

\* ... and, the containers filled, updateGhostedDataReducedVector is called
\* once for each block of the field; the rows are then read with get1dCopy.
UpdateBlock(r) ==
  LET fn == getFieldNum(pz_run.field)
  IN  /\ pz_pc[r] = "filled"
      /\ pz_run.op = "updateGhostedDataReducedVector"
      /\ \E b \in Range(BlocksOf(fn)) \ pz_updated[r] :
           /\ dataReduced' = [dataReduced EXCEPT ![r] =
                updateGhostedDataReducedVector(fn, b, r, pz_data[r][b], @)]
           /\ pz_updated' = [pz_updated EXCEPT ![r] = @ \cup {b}]
           /\ pz_pc' = [pz_pc EXCEPT ![r] =
                IF pz_updated[r] \cup {b} = Range(BlocksOf(fn))
                THEN "done" ELSE "filled"]
           /\ pz_result' = [pz_result EXCEPT ![r] =
                IF pz_updated[r] \cup {b} = Range(BlocksOf(fn))
                THEN [i \in 1..Len(reducedFieldMap(r, fn)) |->
                        dataReduced'[r][reducedFieldMap(r, fn)[i]]]
                ELSE @]
      /\ UNCHANGED <<pz_run, fieldReduced, ghostedFields, pz_data, inbox>>
      /\ UNCHANGED <<mpVars, objVars, evVars, feVars, lbVars>>

\* The target map of rank q in the run, by the fields rank q has built.
\* A rank posts after its own field vector is complete; the target map of
\* the receiver is known to it from the importer's or exporter's setup.
TargetIndices(q) ==
  IF pz_run.op = "getDataVector" THEN getOwnedIndices(q)
  ELSE getOwnedAndSharedIndices(q)

\* The GIDs that carry a field, wherever they live.
FieldGIDs(fieldNum) ==
  UNION {Range(ElementFieldGIDs(r, BlockIds[b], 1, fieldNum)) :
           r \in Ranks, b \in 1..Len(BlockIds)}

TargetFieldMap(q, fieldNum) ==
  SelectSeq(TargetIndices(q), LAMBDA g : g \in FieldGIDs(fieldNum))

\* The other rank's source GIDs for the field: its reduced field map.
SourceFieldGIDs(q, fieldNum) ==
  Range(reducedIndices(q)) \cap FieldGIDs(fieldNum)

PostData(r) ==
  LET fn == getFieldNum(pz_run.field)
      q  == Other(r)
  IN  /\ pz_pc[r] = "reduced"
      /\ inbox' = [inbox EXCEPT ![q] = Append(@,
           IF pz_run.op = "getDataVector"
           THEN exportPacket(dataReduced[r], TargetFieldMap(q, fn))
           ELSE importPacket(dataReduced[r], TargetFieldMap(q, fn),
                             SourceFieldGIDs(q, fn)))]
      /\ pz_pc' = [pz_pc EXCEPT ![r] = "posted"]
      /\ UNCHANGED <<pz_run, pz_updated, fieldReduced, ghostedFields, pz_data,
                     dataReduced, pz_result>>
      /\ UNCHANGED <<mpVars, objVars, evVars, feVars, lbVars>>

\* ArrayToFieldVector::getGhostedDataVector(fieldName, data)
getGhostedDataVector(r, fieldNum, packet) ==
  doImport(dataReduced[r], packet, ghostedFieldMap(r, fieldNum),
           ZeroRow(pz_run))

\* ArrayToFieldVector::getDataVector(fieldName, data)
getDataVector(r, fieldNum, packet) ==
  doExport(dataReduced[r], packet, ownedFieldMap(r, fieldNum),
           ZeroRow(pz_run))

CompleteData(r) ==
  LET fn == getFieldNum(pz_run.field)
  IN  /\ pz_pc[r] = "posted"
      /\ inbox[r] # <<>>
      /\ pz_result' = [pz_result EXCEPT ![r] =
           IF pz_run.op = "getDataVector"
           THEN getDataVector(r, fn, Head(inbox[r]))
           ELSE getGhostedDataVector(r, fn, Head(inbox[r]))]
      /\ inbox' = [inbox EXCEPT ![r] = Tail(@)]
      /\ pz_pc' = [pz_pc EXCEPT ![r] = "done"]
      /\ UNCHANGED <<pz_run, pz_updated, fieldReduced, ghostedFields, pz_data,
                     dataReduced>>
      /\ UNCHANGED <<mpVars, objVars, evVars, feVars, lbVars>>

-----------------------------------------------------------------------------
(***************************************************************************)
(*                       PHX::EvaluatorUtilities                           *)
(***************************************************************************)
\* The header declares the members and the methods; the method bodies are in
\* Phalanx_Evaluator_Utilities_Def.hpp and are modelled as the bookkeeping
\* the class is documented to provide.

FieldTags == {"density", "temperature"}
\* A PHX::Field<DataT> carries the tag it was built with.
Fields == [tag : FieldTags]
fieldTag(h) == h.tag
EvaluatorNames == {"Density", "Fourier"}
\* the name of an evaluator on which setName was never called
UnsetNames == {"", "???"}
NoName == "<none>"

NoEvCall == [op |-> "none", arg |-> NoName, prevEvaluated |-> <<>>,
             prevRequired |-> <<>>, prevName |-> NoName]
NothingPassed == [evaluated |-> <<>>, dependent |-> <<>>, name |-> NoName]

EvaluatorIdle ==
  /\ evaluated_ = <<>>
  /\ required_ = <<>>
  /\ name_ = ""
  /\ ev_passed = NothingPassed
  /\ ev_call = NoEvCall

\* EvaluatorUtilities(): both lists empty
EvaluatorInit ==
  /\ evaluated_ = <<>>
  /\ required_ = <<>>
  /\ name_ \in UnsetNames
  /\ ev_passed = NothingPassed
  /\ ev_call = NoEvCall

EvCall(op, arg) ==
  [op |-> op, arg |-> arg, prevEvaluated |-> evaluated_,
   prevRequired |-> required_, prevName |-> name_]

\* evaluated_.push_back(v)
\* (faulty variant: the tag is put in front)
pushFront(list, v) == <<v>> \o list

push_back(list, v) == Append(list, v)

\* addEvaluatedField(const PHX::FieldTag& v)
addEvaluatedFieldTag(v) ==
  /\ Len(evaluated_) < MaxFields
  /\ evaluated_' = push_back(evaluated_, v)
  /\ ev_passed' = [ev_passed EXCEPT !.evaluated = Append(@, v)]
  /\ ev_call' = EvCall("addEvaluatedField", v)
  /\ UNCHANGED <<required_, name_>>
  /\ UNCHANGED <<mpVars, objVars, pzVars, feVars, lbVars>>

addEvaluatedField == \E v \in FieldTags : addEvaluatedFieldTag(v)

\* addEvaluatedField(const PHX::Field<DataT>& h): adds h.fieldTag()
addEvaluatedFieldData == \E h \in Fields : addEvaluatedFieldTag(fieldTag(h))

\* addDependentField(const PHX::FieldTag& v)
addDependentFieldTag(v) ==
  /\ Len(required_) < MaxFields
  /\ required_' = push_back(required_, v)
  /\ ev_passed' = [ev_passed EXCEPT !.dependent = Append(@, v)]
  /\ ev_call' = EvCall("addDependentField", v)
  /\ UNCHANGED <<evaluated_, name_>>
  /\ UNCHANGED <<mpVars, objVars, pzVars, feVars, lbVars>>

addDependentField == \E v \in FieldTags : addDependentFieldTag(v)

\* addDependentField(const PHX::Field<DataT>& h): adds h.fieldTag()
addDependentFieldData == \E h \in Fields : addDependentFieldTag(fieldTag(h))

\* setName(const std::string& name)
setName ==
  \E name \in EvaluatorNames :
    /\ name_' = name
    /\ ev_passed' = [ev_passed EXCEPT !.name = name]
    /\ ev_call' = EvCall("setName", name)
    /\ UNCHANGED <<evaluated_, required_>>
    /\ UNCHANGED <<mpVars, objVars, pzVars, feVars, lbVars>>

\* const std::vector<FieldTag>& evaluatedFields() const
evaluatedFields == evaluated_
\* const std::vector<FieldTag>& dependentFields() const
dependentFields == required_
\* const std::string& getName() const
getName == name_

-----------------------------------------------------------------------------
(***************************************************************************)
(*                         Tpetra::FECrsMatrix                             *)
(***************************************************************************)

FE_ACTIVE_OVERLAP == "FE_ACTIVE_OVERLAP"
FE_ACTIVE_LOCAL   == "FE_ACTIVE_LOCAL"
FEWhichActive == {FE_ACTIVE_OVERLAP, FE_ACTIVE_LOCAL}
\* a null RCP<FEWhichActive>
NullActive == "null"

CombineModes == {"ADD", "INSERT", "REPLACE", "ABSMAX", "ZERO"}
\* the graphs a caller may pass: RCP ids, NULL for a null RCP
Graphs == {1, 2}
\* the id of a crs_matrix_type object held through an RCP
Matrices == {1}

NoFECall == [op |-> "none", cm |-> "none", offRankGraph |-> NULL,
             outcome |-> "none", prev |-> <<>>, flags |-> <<>>]

\* The members of the object as one value.
FEState == <<activeCrsMatrix_, inactiveCrsMatrix_, offRankMatrix_, fe_graph>>

FEIdle ==
  /\ fe_pc = "idle"
  /\ activeCrsMatrix_ = NullActive
  /\ inactiveCrsMatrix_ = NULL
  /\ offRankMatrix_ = NULL
  /\ fe_graph = NULL
  /\ fe_call = NoFECall

\* Either no matrix exists yet and the constructor of this file will build
\* it, or the methods are applied to a matrix whose members were set up by
\* code outside this file.
FEInit ==
  /\ fe_call = NoFECall
  /\ \/ /\ fe_pc = "unconstructed"
        /\ activeCrsMatrix_ = NullActive
        /\ inactiveCrsMatrix_ = NULL
        /\ offRankMatrix_ = NULL
        /\ fe_graph = NULL
     \/ /\ fe_pc = "ready"
        /\ activeCrsMatrix_ \in FEWhichActive \cup {NullActive}
        /\ inactiveCrsMatrix_ \in Matrices \cup {NULL}
        /\ offRankMatrix_ \in Matrices \cup {NULL}
        /\ fe_graph \in Graphs

FECall(op, cm, outcome) ==
  [op |-> op, cm |-> cm, offRankGraph |-> NULL, outcome |-> outcome,
   prev |-> FEState,
   flags |-> IF op = "switchActiveCrsMatrix" /\ outcome = "returned"
             THEN (IF Len(fe_call.flags) < 2
                   THEN Append(fe_call.flags, activeCrsMatrix_)
                   ELSE <<fe_call.flags[2], activeCrsMatrix_>>)
             ELSE <<>>]

\* FECrsMatrix(graph, offRankGraph, params) : crs_matrix_type(graph, params)
\* { /* if(!offRankGraph.is_null()) offRankMatrix_ = rcp(new ...); */ }
\* The RCP members are default-constructed, that is null.
FECrsMatrix ==
  \E graph \in Graphs, offRankGraph \in Graphs \cup {NULL} :
    /\ fe_pc = "unconstructed"
    /\ fe_graph' = graph
    /\ activeCrsMatrix_' = NullActive
    /\ inactiveCrsMatrix_' = NULL
    /\ offRankMatrix_' = NULL
    /\ fe_pc' = "ready"
    /\ fe_call' = [FECall("FECrsMatrix", "none", "returned")
                     EXCEPT !.offRankGraph = offRankGraph]
    /\ UNCHANGED <<mpVars, objVars, pzVars, evVars, lbVars>>

\* operator=(rhs) { return *this; }
operatorAssign ==
  /\ fe_pc = "ready"
  /\ fe_call' = FECall("operator=", "none", "returned")
  /\ UNCHANGED <<fe_pc, activeCrsMatrix_, inactiveCrsMatrix_, offRankMatrix_,
                 fe_graph>>
  /\ UNCHANGED <<mpVars, objVars, pzVars, evVars, lbVars>>

\* *activeCrsMatrix_ on a null RCP: a debug build throws, an optimised build
\* reads or writes through a null pointer.
DerefActive ==
  IF activeCrsMatrix_ = NullActive THEN {"threw", "crashed"} ELSE {"returned"}

\* doOverlapToLocal(CM):
\*   if(!inactiveCrsMatrix_.is_null() && *activeCrsMatrix_ == OVERLAP) { }
doOverlapToLocal ==
  \E CM \in CombineModes,
     o \in (IF inactiveCrsMatrix_ # NULL THEN DerefActive
            ELSE {"returned"}) :
    /\ fe_pc = "ready"
    /\ fe_call' = FECall("doOverlapToLocal", CM, o)
    /\ fe_pc' = IF o = "crashed" THEN "crashed" ELSE fe_pc
    /\ UNCHANGED <<activeCrsMatrix_, inactiveCrsMatrix_, offRankMatrix_,
                   fe_graph>>
    /\ UNCHANGED <<mpVars, objVars, pzVars, evVars, lbVars>>

\* doLocalToOverlap(CM) { }
\* (faulty variant: the ADD mode switches the active matrix)
localToOverlapSwitches(active, CM) ==
  IF CM = "ADD" /\ active # NullActive
  THEN (IF active = FE_ACTIVE_OVERLAP THEN FE_ACTIVE_LOCAL
        ELSE FE_ACTIVE_OVERLAP)
  ELSE active

localToOverlap(active, CM) == active

doLocalToOverlap ==
  \E CM \in CombineModes :
    /\ fe_pc = "ready"
    /\ activeCrsMatrix_' = localToOverlap(activeCrsMatrix_, CM)
    /\ fe_call' = FECall("doLocalToOverlap", CM, "returned")
    /\ UNCHANGED <<fe_pc, inactiveCrsMatrix_, offRankMatrix_, fe_graph>>
    /\ UNCHANGED <<mpVars, objVars, pzVars, evVars, lbVars>>

\* if(*activeCrsMatrix_ == FE_ACTIVE_OVERLAP) *activeCrsMatrix_ = LOCAL;
\* else *activeCrsMatrix_ = FE_ACTIVE_OVERLAP;
\* (faulty variant: the else branch is missing)
switchedNoElse(active) ==
  IF active = FE_ACTIVE_OVERLAP THEN FE_ACTIVE_LOCAL ELSE active

switched(active) ==
  IF active = FE_ACTIVE_OVERLAP THEN FE_ACTIVE_LOCAL ELSE FE_ACTIVE_OVERLAP

\* switchActiveCrsMatrix(): the flag is switched; the swap with the inactive
\* matrix is not implemented, so the entries stay where they are.
switchActiveCrsMatrix ==
  \E o \in DerefActive :
    /\ fe_pc = "ready"
    /\ activeCrsMatrix_' = IF o = "returned" THEN switched(activeCrsMatrix_)
                           ELSE activeCrsMatrix_
    /\ fe_pc' = IF o = "crashed" THEN "crashed" ELSE fe_pc
    /\ fe_call' = FECall("switchActiveCrsMatrix", "none", o)
    /\ UNCHANGED <<inactiveCrsMatrix_, offRankMatrix_, fe_graph>>
    /\ UNCHANGED <<mpVars, objVars, pzVars, evVars, lbVars>>

-----------------------------------------------------------------------------
(***************************************************************************)
(*         The zdrive run of the log: RIB partitioning and migration       *)
(***************************************************************************)
\* The log records what the driver printed; the partitioner and the driver
\* are not part of the sources.  The run is modelled as the log describes
\* it: a linear initial distribution, a decomposition into the requested
\* parts, the migration of the exported objects, and the two evaluations.

Procs == 0..(NumProcs - 1)
Parts == 1..RequestedParts

RECURSIVE SumOver(_, _)
SumOver(f, S) ==
  IF S = {} THEN 0
  ELSE LET x == CHOOSE x \in S : TRUE IN f[x] + SumOver(f, S \ {x})

MaxOver(f, S) == CHOOSE m \in {f[x] : x \in S} : \A x \in S : f[x] <= m
MinOver(f, S) == CHOOSE m \in {f[x] : x \in S} : \A x \in S : m <= f[x]

NoParts == [q \in Parts |-> 0]
Objs(row) == SumOver(row, Parts)

\* Decompositions into four parts of 95 objects (imbalance 1.000): for each
\* process, how many of its 76 objects fall into each part.
\* One that cuts the linear distribution into four equal intervals ...
IntervalPlan ==
  [p \in Procs |->
     CASE p = 0 -> <<76, 0, 0, 0>>
       [] p = 1 -> <<19, 57, 0, 0>>
       [] p = 2 -> <<0, 38, 38, 0>>
       [] p = 3 -> <<0, 0, 57, 19>>
       [] p = 4 -> <<0, 0, 0, 76>>]
\* ... and one with the import and export extremes of the log (257 and 48)
\* when process 0 hosts parts 1 to 3 and process 1 hosts part 4.
RecordedPlan ==
  [p \in Procs |->
     CASE p = 0 -> <<10, 10, 8, 48>>
       [] p = 1 -> <<25, 25, 26, 0>>
       [] p = 2 -> <<20, 20, 20, 16>>
       [] p = 3 -> <<20, 20, 20, 16>>
       [] p = 4 -> <<20, 20, 21, 15>>]
Plans == {IntervalPlan, RecordedPlan}

\* Where the parts live: one part per process, or three parts on one process
\* and the fourth on another (the 285 / 95 / 0 of the log).
HostMaps == {<<1, 2, 3, 4>>, <<0, 0, 0, 1>>}

NoEval == [max |-> 0, min |-> 0, sum |-> 0, load |-> 0,
           requested |-> 0, actual |-> 0, nonEmpty |-> 0]
EmptyNet == [e \in Procs \X Procs |-> NoParts]

LBIdle ==
  /\ lb_pc = "idle"
  /\ lb_count = [p \in Procs |-> 0]
  /\ lb_assign = [p \in Procs |-> NoParts]
  /\ lb_host = <<>>
  /\ lb_exported = {}
  /\ lb_net = EmptyNet
  /\ lb_eval = [before |-> NoEval, after |-> NoEval]

\* "Initially distribute input objects in linear fashion"
LBInit ==
  /\ lb_pc = "start"
  /\ lb_count = [p \in Procs |-> ObjsPerProc]
  /\ lb_assign = [p \in Procs |-> NoParts]
  /\ lb_host = <<>>
  /\ lb_exported = {}
  /\ lb_net = EmptyNet
  /\ lb_eval = [before |-> NoEval, after |-> NoEval]

\* DRIVER EVAL and Zoltan_LB_Eval_Balance: the figures over the processes
\* and over the parts in use.
PartSize(q) == SumOver([p \in Procs |-> lb_assign[p][q]], Procs)
Evaluate(partsInUse, sizes) ==
  [max |-> MaxOver(lb_count, Procs),
   min |-> MinOver(lb_count, Procs),
   sum |-> SumOver(lb_count, Procs),
   load |-> SumOver([p \in Procs |-> lb_count[p] * ObjWeight], Procs),
   requested |-> RequestedParts,
   actual |-> Cardinality(partsInUse),
   nonEmpty |-> Cardinality({q \in partsInUse : sizes[q] > 0})]

\* BEFORE load balancing: every process is a part of its own.
EvalBefore ==
  /\ lb_pc = "start"
  /\ lb_eval' = [lb_eval EXCEPT !.before = Evaluate(Procs, lb_count)]
  /\ lb_pc' = "evaluated"
  /\ UNCHANGED <<lb_count, lb_assign, lb_host, lb_exported, lb_net>>
  /\ UNCHANGED <<mpVars, objVars, pzVars, evVars, feVars>>

\* Zoltan_LB_Partition: every object is assigned to one of the requested
\* parts and every part to a process.
LB_Partition ==
  \E plan \in Plans, host \in HostMaps :
    /\ lb_pc = "evaluated"
    /\ lb_assign' = plan
    /\ lb_host' = host
    /\ lb_pc' = "partitioned"
    /\ UNCHANGED <<lb_count, lb_exported, lb_net, lb_eval>>
    /\ UNCHANGED <<mpVars, objVars, pzVars, evVars, feVars>>

\* What process p sends to process dst / keeps for itself.
ExportTo(p, dst) ==
  [q \in Parts |-> IF lb_host[q] = dst THEN lb_assign[p][q] ELSE 0]

\* Migration, export side: the objects of the parts living elsewhere leave.
Export(p) ==
  /\ lb_pc = "partitioned"
  /\ p \notin lb_exported
  /\ lb_net' = [e \in Procs \X Procs |->
                  IF e[1] = p /\ e[2] # p THEN ExportTo(p, e[2])
                  ELSE lb_net[e]]
  /\ lb_assign' = [lb_assign EXCEPT ![p] = ExportTo(p, p)]
  /\ lb_count' = [lb_count EXCEPT ![p] = Objs(ExportTo(p, p))]
  /\ lb_exported' = lb_exported \cup {p}
  /\ UNCHANGED <<lb_pc, lb_host, lb_eval>>
  /\ UNCHANGED <<mpVars, objVars, pzVars, evVars, feVars>>

\* Migration, import side: the objects of one sender are taken in.
\* (faulty variant: arriving objects replace those of the part already held)
importObjsReplaces(held, msg) ==
  [q \in Parts |-> IF msg[q] > 0 THEN msg[q] ELSE held[q]]

importObjs(held, msg) == [q \in Parts |-> held[q] + msg[q]]

Import(p) ==
  \E src \in Procs :
    /\ lb_pc = "partitioned"
    /\ lb_net[<<src, p>>] # NoParts
    /\ lb_assign' = [lb_assign EXCEPT
                       ![p] = importObjs(@, lb_net[<<src, p>>])]
    /\ lb_count' = [lb_count EXCEPT
                      ![p] = Objs(importObjs(lb_assign[p],
                                             lb_net[<<src, p>>]))]
    /\ lb_net' = [lb_net EXCEPT ![<<src, p>>] = NoParts]
    /\ UNCHANGED <<lb_pc, lb_host, lb_exported, lb_eval>>
    /\ UNCHANGED <<mpVars, objVars, pzVars, evVars, feVars>>

\* AFTER load balancing: the migration is complete.
EvalAfter ==
  /\ lb_pc = "partitioned"
  /\ lb_exported = Procs
  /\ lb_net = EmptyNet
  /\ lb_eval' = [lb_eval EXCEPT !.after =
       Evaluate(Parts, [q \in Parts |-> PartSize(q)])]
  /\ lb_pc' = "after"
  /\ UNCHANGED <<lb_count, lb_assign, lb_host, lb_exported, lb_net>>
  /\ UNCHANGED <<mpVars, objVars, pzVars, evVars, feVars>>

-----------------------------------------------------------------------------
(***************************************************************************)
(*                            Specifications                               *)
(***************************************************************************)

InitMapping ==
  /\ MappingInit /\ ObjectiveIdle /\ PanzerIdle
  /\ EvaluatorIdle /\ FEIdle /\ LBIdle

NextMapping ==
  \/ MappingProblemMPI
  \/ MappingProblemComm
  \/ MappingProblemDefault
  \/ solve
  \/ getSolution

SpecMapping == InitMapping /\ [][NextMapping]_vars

InitObjective ==
  /\ MappingIdle /\ ObjectiveInit /\ PanzerIdle
  /\ EvaluatorIdle /\ FEIdle /\ LBIdle

NextObjective ==
  \/ ObjectiveDefault
  \/ ObjectiveParam
  \/ setParameters
  \/ getParameters
  \/ gradient
  \/ dirDeriv
  \/ hessVec
  \/ checkGradient
  \/ checkHessVec
  \/ checkHessSym

SpecObjective == InitObjective /\ [][NextObjective]_vars

InitPanzer ==
  /\ MappingIdle /\ ObjectiveIdle /\ PanzerInit
  /\ EvaluatorIdle /\ FEIdle /\ LBIdle

NextPanzer ==
  \E r \in Ranks :
    \/ BuildReduced(r)
    \/ PostFields(r)
    \/ CompleteFields(r)
    \/ FillFieldContainers(r)
    \/ ConstructReducedVector(r)
    \/ UpdateBlock(r)
    \/ ReduceData(r)
    \/ PostData(r)
    \/ CompleteData(r)

SpecPanzer == InitPanzer /\ [][NextPanzer]_vars

InitEvaluator ==
  /\ MappingIdle /\ ObjectiveIdle /\ PanzerIdle
  /\ EvaluatorInit /\ FEIdle /\ LBIdle

NextEvaluator ==
  \/ addEvaluatedField
  \/ addEvaluatedFieldData
  \/ addDependentField
  \/ addDependentFieldData
  \/ setName

SpecEvaluator == InitEvaluator /\ [][NextEvaluator]_vars

InitFECrsMatrix ==
  /\ MappingIdle /\ ObjectiveIdle /\ PanzerIdle /\ EvaluatorIdle /\ FEInit
  /\ LBIdle

NextFECrsMatrix ==
  \/ FECrsMatrix
  \/ operatorAssign
  \/ doOverlapToLocal
  \/ doLocalToOverlap
  \/ switchActiveCrsMatrix

SpecFECrsMatrix == InitFECrsMatrix /\ [][NextFECrsMatrix]_vars

InitLoadBalance ==
  /\ MappingIdle /\ ObjectiveIdle /\ PanzerIdle /\ EvaluatorIdle /\ FEIdle
  /\ LBInit

NextLoadBalance ==
  \/ EvalBefore
  \/ LB_Partition
  \/ \E p \in Procs : Export(p)
  \/ \E p \in Procs : Import(p)
  \/ EvalAfter

SpecLoadBalance == InitLoadBalance /\ [][NextLoadBalance]_vars

-----------------------------------------------------------------------------
(***************************************************************************)
(*                    Properties of MappingProblem                         *)
(***************************************************************************)

\* The objects allocated by the constructor (the default machine, if any).
MachineAllocs == IF machine.has_ownership THEN 1 ELSE 0

\* The object most recently allocated by a solve(), NULL before the first.
NewestSolution ==
  IF heap > MachineAllocs THEN NewObject(heap - 1) ELSE NULL

C2_SolveRunsTheAlgorithm ==
  mp_call.op = "solve" /\ mp_call.thrown = NoException =>
    /\ soln # NULL
    /\ soln \in mapped

\* C3: the algorithm name is the value of "mapping_algorithm" when the entry
\* is present and the default name otherwise, and the geometric mapper is run
\* exactly when that name is "geometric".
C3_AlgorithmChosenByParameter ==
  mp_call.op = "solve" /\ mp_call.created # NULL
                       /\ ~(pl.present /\ ~pl.isString) =>
    LET name == IF pl.present THEN pl.value ELSE defString
    IN  /\ mp_call.algName = name
        /\ (mp_call.mapper = "run") <=> (name = "geometric")
        /\ (name = "geometric" /\ mp_call.thrown = NoException
              => soln \in mapped)
        /\ (name # "geometric" => soln \notin mapped)

\* C3 witness: the entry says "geometric" while the default does not, and the
\* mapper ran on the new solution.
C3_Witness ==
  /\ mp_call.op = "solve"
  /\ pl.present /\ pl.isString /\ pl.value = "geometric"
  /\ defString = "block"
  /\ mp_call.mapper = "run"
  /\ soln \in mapped

\* C4: once a constructor has returned, the machine handle is non-null: the
\* user's machine when one was passed, a machine newly created from the
\* problem's communicator otherwise; the partitioning solution handle is set
\* exactly when a non-null partitioning solution was passed.
C4_MachineAfterConstruction ==
  mp_pc = "ready" =>
    /\ machine.ptr # NULL
    /\ (mp_args.machine_ # NULL =>
          /\ machine.ptr = mp_args.machine_
          /\ ~machine.has_ownership)
    /\ (mp_args.machine_ = NULL =>
          /\ machine.ptr \notin UserObjects
          /\ machine.has_ownership
          /\ machine.madeFrom = comm_)
    /\ (partSoln.ptr # NULL) <=> (mp_args.partSoln_ # NULL)
    /\ partSoln.ptr = mp_args.partSoln_

\* C4 witness: a problem built with the user's machine and no partitioning
\* solution.
C4_Witness ==
  /\ mp_pc = "ready"
  /\ mp_args.machine_ \in UserMachines
  /\ mp_args.partSoln_ = NULL
  /\ machine.ptr = mp_args.machine_
  /\ partSoln = NullRCP

\* C5: an exception raised inside a try block of solve() or of
\* createMappingProblem leaves the call: the call does not return normally.
C5_ExceptionsForwarded ==
  /\ (mp_call.raised # NoException => mp_call.thrown = mp_call.raised)
  /\ (mp_call.op \notin {"solve", "getSolution", "none"}
        /\ mp_call.raised # NoException => mp_pc = "threw")

\* C5 witness: solve() created the solution, the mapper threw, and the
\* exception reached the caller.
C5_Witness ==
  /\ mp_call.op = "solve"
  /\ mp_call.created # NULL
  /\ mp_call.mapper = "run"
  /\ mp_call.raised = "std::runtime_error"
  /\ mp_call.thrown = "std::runtime_error"

-----------------------------------------------------------------------------
(***************************************************************************)
(*                       Properties of Objective                           *)
(***************************************************************************)

DelegatingMethods == {"gradient", "dirDeriv", "hessVec"}

\* C6: gradient, dirDeriv and hessVec hand the objective itself and every
\* argument they received, the tolerance included, to the Impl method of the
\* same name.
C6_PureDelegation ==
  obj_call.op \in DelegatingMethods =>
    /\ obj_call.method = obj_call.op
    /\ obj_call.passed = <<Self>> \o obj_call.received

ImplCallers == DelegatingMethods \cup
               {"checkGradient", "checkHessVec", "checkHessSym"}

\* C18: on an Objective built by either constructor the Impl object exists:
\* pObjImpl_ is not null in any state after construction, so every call of
\* gradient, dirDeriv, hessVec, checkGradient, checkHessVec and checkHessSym
\* enters an Impl method of an existing object.
C18_ImplExists ==
  /\ obj_pc = "constructed" => pObjImpl_ # NULL
  /\ obj_call.op \in ImplCallers =>
       /\ obj_call.target # NULL
       /\ obj_call.outcome = "invoked"

-----------------------------------------------------------------------------
(***************************************************************************)
(*                  Properties of the panzer utilities                     *)
(***************************************************************************)

\* The arrays the unit test expects (TEST_EQUALITY), per rank.
ExpectedGhostedFields(r) ==
  IF r = 0 THEN <<0, 1, 0, 1, 0, 1, 0, 1, 0, 1, 0, 0, 0, 1>>
           ELSE <<0, 1, 0, 1, 0, 1, 0, 1, 0, 0, 0, 0>>

ExpectedGhostedData(r, field) ==
  IF r = 0 THEN (IF field = "U" THEN <<0, 2, 4, 6, 8, 12, 13, 10>>
                                ELSE <<1, 3, 5, 7, 9, 11>>)
           ELSE (IF field = "U" THEN <<2, 8, 10, 4, 12, 14, 15, 13>>
                                ELSE <<3, 9, 11, 5>>)

ExpectedData(r, field) ==
  IF r = 0 THEN (IF field = "U" THEN <<6, 0, 2, 8, 10, 13>>
                                ELSE <<7, 1, 3, 9, 11>>)
           ELSE (IF field = "U" THEN <<4, 12, 15, 14>>
                                ELSE <<5>>)

\* The rank has its ghosted field vector.
HasFields(r) == ghostedFields[r] # NoVector

\* The values that the element data of the run, on any rank, supply for GID
\* g of the field.
Supplied(g, fieldNum) ==
  {pz_data[q][b][e][f] :
     <<q, b, e, f>> \in
       {t \in Ranks \X Range(BlocksOf(fieldNum)) \X {1} \X (1..4) :
          /\ pz_data[t[1]] # NoVector
          /\ t[4] <= Len(getGIDFieldOffsets(t[2], fieldNum))
          /\ ElementFieldGIDs(t[1], t[2], t[3], fieldNum)[t[4]] = g}}

\* The first column of a multivector's rows (getVector(0)->get1dCopy).
FirstColumn(rows) == [i \in 1..Len(rows) |-> rows[i][1]]

\* C8: on every rank buildGhostedFieldVector returns one field number per
\* index of getOwnedAndSharedIndices, in the same order, each a valid field
\* number (greater than -1), also for indices on no local element.
C8_GhostedFieldVector ==
  \A r \in Ranks : HasFields(r) =>
    LET idx == getOwnedAndSharedIndices(r)
    IN  /\ Len(ghostedFields[r]) = Len(idx)
        /\ \A i \in 1..Len(idx) :
             /\ ghostedFields[r][i] > -1
             /\ ghostedFields[r][i] \in {getFieldNum(n) : n \in FieldNames}
             /\ idx[i] \in FieldGIDs(ghostedFields[r][i])
        /\ ghostedFields[r] = ExpectedGhostedFields(r)

\* C8 witness: rank 0 has the field number of GID 9, which lies on none of
\* its elements.
C8_Witness ==
  /\ pz_run.op = "buildGhostedFieldVector"
  /\ pz_pc[0] = "done"
  /\ getOwnedAndSharedIndices(0)[10] = 9
  /\ 9 \notin LocalElementGIDs(0)
  /\ ghostedFields[0][10] = 1

\* C9: getGhostedDataVector returns on each rank one row per owned-and-shared
\* GID carrying the field, and the row of a GID holds the value supplied for
\* it in the element data, also when only the other rank supplied it.
C9_GhostedDataVector ==
  \A r \in Ranks :
    pz_run.op = "getGhostedDataVector" /\ pz_pc[r] = "done" =>
      LET fn  == getFieldNum(pz_run.field)
          map == SelectSeq(getOwnedAndSharedIndices(r),
                           LAMBDA g : g \in FieldGIDs(fn))
      IN  /\ Len(pz_result[r]) = Len(map)
          /\ \A i \in 1..Len(map) :
               /\ Len(pz_result[r][i]) = numCols(pz_run)
               /\ Supplied(map[i], fn) = {pz_result[r][i]}
          /\ (pz_run.cols = 0 =>
                FirstColumn(pz_result[r])
                  = ExpectedGhostedData(r, pz_run.field))

\* C9 witness: rank 0 holds the T values 9 and 11, which only rank 1 wrote.
C9_Witness ==
  /\ pz_run = [op |-> "getGhostedDataVector", field |-> "T", cols |-> 0]
  /\ pz_pc[0] = "done"
  /\ 9 \notin DOMAIN dataReduced[0]
  /\ 11 \notin DOMAIN dataReduced[0]
  /\ 9 \in DOMAIN dataReduced[1]
  /\ pz_result[0][5] = <<9>>
  /\ pz_result[0][6] = <<11>>

\* C10: getDataVector returns on each rank rows only for the GIDs of the
\* field that the rank owns; across the ranks every GID carrying the field
\* has a row on exactly one rank, holding the value supplied for it.
C10_DataVector ==
  LET fn == getFieldNum(pz_run.field)
      RowsOf(r) == ownedFieldMap(r, fn)
  IN  /\ \A r \in Ranks :
           pz_run.op = "getDataVector" /\ pz_pc[r] = "done" =>
             /\ Len(pz_result[r]) = Len(RowsOf(r))
             /\ Range(RowsOf(r)) =
                  Range(getOwnedIndices(r)) \cap FieldGIDs(fn)
             /\ \A i \in 1..Len(RowsOf(r)) :
                  /\ Len(pz_result[r][i]) = numCols(pz_run)
                  /\ Supplied(RowsOf(r)[i], fn) = {pz_result[r][i]}
             /\ (pz_run.cols = 0 =>
                   FirstColumn(pz_result[r]) = ExpectedData(r, pz_run.field))
      /\ (pz_run.op = "getDataVector" /\ (\A q \in Ranks : pz_pc[q] = "done")
            => \A g \in FieldGIDs(fn) :
                 Cardinality({r \in Ranks : g \in Range(RowsOf(r))}) = 1)

\* C10 witness: both ranks have their T vectors; rank 0 owns GID 9, which
\* only rank 1 wrote, and rank 1 owns GID 5 alone.
C10_Witness ==
  /\ pz_run = [op |-> "getDataVector", field |-> "T", cols |-> 0]
  /\ \A r \in Ranks : pz_pc[r] = "done"
  /\ 9 \notin DOMAIN dataReduced[0]
  /\ pz_result[0][4] = <<9>>
  /\ pz_result[1] = << <<5>> >>

\* C11: for element data with numCols columns getDataVector returns rows of
\* exactly numCols entries, laid out over the same GIDs and with the same
\* local length as in the single-column case; column c of the row of a GID
\* holds column c of the data supplied for that GID (the GID plus c in the
\* test, c counted from 0).
C11_MultiColumnDataVector ==
  \A r \in Ranks :
    pz_run.op = "getDataVector" /\ pz_run.cols >= 1 /\ pz_pc[r] = "done" =>
      LET fn     == getFieldNum(pz_run.field)
          map    == ownedFieldMap(r, fn)
          single == ExpectedData(r, pz_run.field)
      IN  /\ Len(pz_result[r]) = Len(single)
          /\ Len(map) = Len(single)
          /\ \A i \in 1..Len(map) :
               /\ map[i] = single[i]
               /\ Len(pz_result[r][i]) = pz_run.cols
               /\ \A c \in 1..pz_run.cols :
                    /\ {row[c] : row \in Supplied(map[i], fn)}
                         = {pz_result[r][i][c]}
                    /\ pz_result[r][i][c] = single[i] + (c - 1)

\* C11 witness: both ranks hold their two-column U vectors; the columns of
\* a row differ, and GID 8, written by rank 1 only as well, is with rank 0.
C11_Witness ==
  /\ pz_run = [op |-> "getDataVector", field |-> "U", cols |-> 2]
  /\ \A r \in Ranks : pz_pc[r] = "done"
  /\ pz_result[0][1] = <<6, 7>>
  /\ pz_result[0][4] = <<8, 9>>
  /\ pz_result[1][4] = <<14, 15>>

\* The rows the updateGhostedDataVector test expects (TEST_EQUALITY).
ExpectedReducedData(r, field) ==
  IF r = 0 THEN (IF field = "U" THEN <<0, 2, 4, 6, 8, 12, 13, 10>>
                                ELSE <<1, 3, 5, 7>>)
           ELSE (IF field = "U" THEN <<2, 8, 10, 4, 12, 14, 15, 13>>
                                ELSE <<3, 9, 11, 5>>)

\* The rank has constructed its reduced data vector in the update run.
HasReducedVector(r) ==
  /\ pz_run.op = "updateGhostedDataReducedVector"
  /\ pz_pc[r] \in {"constructed", "filled", "done"}

\* The number of owned-and-shared GIDs of rank r that carry the field.
OwnedAndSharedCount(r, fieldNum) ==
  Len(SelectSeq(getOwnedAndSharedIndices(r),
                LAMBDA g : g \in FieldGIDs(fieldNum)))

\* The GIDs of the field on the rank's elements of the blocks updated so far.
UpdatedGIDs(r, fieldNum) ==
  UNION {Range(ElementFieldGIDs(r, b, 1, fieldNum)) : b \in pz_updated[r]}

\* The vector on getFieldMap(field, buildGhostedFieldReducedVector) has one
\* row per GID of the field on a local element (8 for U, 4 for T); a row
\* holds the value supplied for its GID once the block of the GID has been
\* updated and is untouched (zero) before, whatever other block was updated.
ReducedRowsAndValues(r) ==
  LET fn  == getFieldNum(pz_run.field)
      map == reducedFieldMap(r, fn)
  IN  /\ Range(map) = LocalElementGIDs(r) \cap FieldGIDs(fn)
      /\ Len(map) = Cardinality(Range(map))
      /\ DOMAIN dataReduced[r] = Range(map)
      /\ Len(map) = (IF pz_run.field = "U" THEN 8 ELSE 4)
      /\ pz_pc[r] \in {"filled", "done"} =>
           \A g \in Range(map) :
             IF g \in UpdatedGIDs(r, fn)
             THEN Supplied(g, fn) = {dataReduced[r][g]}
             ELSE dataReduced[r][g] = ZeroRow(pz_run)
      /\ pz_pc[r] = "done" =>
           /\ pz_updated[r] = Range(BlocksOf(fn))
           /\ FirstColumn(pz_result[r])
                = ExpectedReducedData(r, pz_run.field)

-----------------------------------------------------------------------------
(***************************************************************************)
(*                  Properties of EvaluatorUtilities                       *)
(***************************************************************************)

\* C12: after any sequence of addEvaluatedField and addDependentField calls
\* evaluatedFields() is exactly the sequence of tags passed to
\* addEvaluatedField and dependentFields() exactly the sequence passed to
\* addDependentField, each in call order; a call that adds to one list
\* leaves the other as it was, and getName() is the name of the last setName.
C12_FieldBookkeeping ==
  /\ evaluatedFields = ev_passed.evaluated
  /\ dependentFields = ev_passed.dependent
  /\ (ev_passed.name # NoName => getName = ev_passed.name)
  /\ (ev_call.op = "addEvaluatedField" =>
        /\ dependentFields = ev_call.prevRequired
        /\ evaluatedFields = Append(ev_call.prevEvaluated, ev_call.arg)
        /\ getName = ev_call.prevName)
  /\ (ev_call.op = "addDependentField" =>
        /\ evaluatedFields = ev_call.prevEvaluated
        /\ dependentFields = Append(ev_call.prevRequired, ev_call.arg)
        /\ getName = ev_call.prevName)
  /\ (ev_call.op = "setName" =>
        /\ getName = ev_call.arg
        /\ evaluatedFields = ev_call.prevEvaluated
        /\ dependentFields = ev_call.prevRequired)

\* C12 witness: two different tags were added to each list in opposite
\* orders, the name was set twice, and the last call added a dependent
\* field while the evaluated list was not empty.
C12_Witness ==
  /\ evaluatedFields = <<"density", "temperature">>
  /\ dependentFields = <<"temperature", "density">>
  /\ ev_call.op = "addDependentField"
  /\ ev_call.prevEvaluated = <<"density", "temperature">>
  /\ ev_call.prevName = "Fourier"
  /\ getName = "Fourier"

-----------------------------------------------------------------------------
(***************************************************************************)
(*                     Properties of FECrsMatrix                           *)
(***************************************************************************)

\* C14: switchActiveCrsMatrix() called on a valid flag makes it
\* FE_ACTIVE_LOCAL when it was FE_ACTIVE_OVERLAP and FE_ACTIVE_OVERLAP
\* otherwise; two consecutive calls restore the flag; a flag that is set is
\* always one of the two values, and nothing else of the matrix changes.
C14_SwitchToggles ==
  /\ activeCrsMatrix_ # NullActive => activeCrsMatrix_ \in FEWhichActive
  /\ (fe_call.op = "switchActiveCrsMatrix" /\ fe_call.prev[1] # NullActive =>
        /\ fe_call.outcome = "returned"
        /\ fe_call.prev[1] = FE_ACTIVE_OVERLAP
             => activeCrsMatrix_ = FE_ACTIVE_LOCAL
        /\ fe_call.prev[1] # FE_ACTIVE_OVERLAP
             => activeCrsMatrix_ = FE_ACTIVE_OVERLAP
        /\ activeCrsMatrix_ # fe_call.prev[1]
        /\ <<inactiveCrsMatrix_, offRankMatrix_, fe_graph>>
             = <<fe_call.prev[2], fe_call.prev[3], fe_call.prev[4]>>
        /\ Len(fe_call.flags) = 2 => activeCrsMatrix_ = fe_call.flags[1])

\* C14 witness: two consecutive calls, starting at FE_ACTIVE_LOCAL, have
\* brought the flag over FE_ACTIVE_OVERLAP back to FE_ACTIVE_LOCAL.
C14_Witness ==
  /\ fe_call.op = "switchActiveCrsMatrix"
  /\ fe_call.flags = <<FE_ACTIVE_LOCAL, FE_ACTIVE_OVERLAP>>
  /\ activeCrsMatrix_ = FE_ACTIVE_LOCAL

\* C15: doLocalToOverlap(CM) changes nothing, whatever the combine mode: the
\* active-matrix flag, the inactive matrix, the off-rank matrix and the
\* entries are after the call what they were before it.
C15_LocalToOverlapIsNoOp ==
  fe_call.op = "doLocalToOverlap" =>
    /\ fe_call.cm \in CombineModes
    /\ fe_call.outcome = "returned"
    /\ FEState = fe_call.prev
    /\ fe_pc = "ready"

\* C15 witness: doLocalToOverlap(ADD) returned on a matrix whose flag was
\* FE_ACTIVE_OVERLAP and which has an inactive matrix.
C15_Witness ==
  /\ fe_call.op = "doLocalToOverlap"
  /\ fe_call.cm = "ADD"
  /\ fe_call.prev[1] = FE_ACTIVE_OVERLAP
  /\ fe_call.prev[2] # NULL
  /\ activeCrsMatrix_ = FE_ACTIVE_OVERLAP
  /\ inactiveCrsMatrix_ # NULL

\* C16: the constructor creates an off-rank matrix object when offRankGraph
\* is not null and none when it is null.
C16_OffRankMatrixCreated ==
  fe_call.op = "FECrsMatrix" =>
    (offRankMatrix_ # NULL <=> fe_call.offRankGraph # NULL)

-----------------------------------------------------------------------------
(***************************************************************************)
(*                Properties of the load-balancing run                     *)
(***************************************************************************)

\* The objects under way between the processes.
InFlight ==
  SumOver([e \in Procs \X Procs |-> Objs(lb_net[e])], Procs \X Procs)

\* C17: load balancing with migration conserves the objects: at every moment
\* the objects held by the processes and those in flight number 380, and the
\* object count and the load summed over the processes are after load
\* balancing what they were before (380), also when processes end with zero
\* objects; the objects are then spread over exactly the requested four
\* parts, none of them empty.
C17_MigrationConservesObjects ==
  /\ SumOver(lb_count, Procs) + InFlight = RecordedSum
  /\ \A p \in Procs : lb_count[p] >= 0
  /\ lb_pc # "start" =>
       /\ lb_eval.before.sum = RecordedSum
       /\ lb_eval.before.load = RecordedSum
  /\ lb_pc = "after" =>
       /\ lb_eval.after.sum = lb_eval.before.sum
       /\ lb_eval.after.load = lb_eval.before.load
       /\ lb_eval.after.sum = RecordedSum
       /\ lb_eval.after.requested = RequestedParts
       /\ lb_eval.after.actual = RequestedParts
       /\ lb_eval.after.nonEmpty = RequestedParts
       /\ \A q \in Parts : /\ PartSize(q) > 0
                            /\ PartSize(q) = lb_assign[lb_host[q]][q]
       /\ \A p \in Procs : lb_count[p] = Objs(lb_assign[p])

\* C17 witness: the figures of the log after load balancing: a process with
\* 285 objects, processes with none, 380 in all, four parts of 95.
C17_Witness ==
  /\ lb_pc = "after"
  /\ lb_eval.before = [max |-> 76, min |-> 76, sum |-> 380, load |-> 380,
                       requested |-> 4, actual |-> 5, nonEmpty |-> 5]
  /\ lb_eval.after = [max |-> 285, min |-> 0, sum |-> 380, load |-> 380,
                      requested |-> 4, actual |-> 4, nonEmpty |-> 4]
  /\ \A q \in Parts : PartSize(q) = 95
  /\ Cardinality({p \in Procs : lb_count[p] = 0}) = 3

=============================================================================
